---- MODULE Spec2Model ----
\* Multi-tier TTL cache manager (app/core/cache_manager.py): an in-process
\* dict (memory_cache) in front of an optional Redis client, with hit/miss
\* statistics.  Time is the value time.time() returns, in whole seconds.
EXTENDS Integers, Sequences, FiniteSets, TLC

VARIABLES now, redis_client, memory_cache, cache_stats, redis, calls, deadline,
          last, twin, pc, tmp, arg, expect, silent, env, wire, probe, nulls

vars == <<now, redis_client, memory_cache, cache_stats, redis, calls, deadline,
          last, twin, pc, tmp, arg, expect, silent, env, wire, probe, nulls>>

-----------------------------------------------------------------------------
\* Bounds of the model

MaxTime == 600
MaxGets == 2

TickSteps == {150}

\* Keys are strings, written as sequences of characters so that substring
\* and glob matching can be computed.
AllKeys == { <<"a", "b">>, <<"b", "*">> }
Keys == { <<"a", "b">> }
Patterns == { <<"a">>, <<"a", "b">>, <<"*">>, <<"?">> }

\* Values handed to set: a tuple (JSON turns it into a list), a
\* self-referencing list (json.dumps raises ValueError) and a list nested
\* deeper than the recursion limit (json.dumps raises RecursionError).
Values == {"tuple", "circular", "deep"}

CacheTypes == {"quick", "technical_indicators", "no_such_type"}
\* The optional ttl argument: <<>> is None, <<n>> is the integer n.
NoTTL == << >>
TTLs == {NoTTL, <<0>>, <<150>>}
\* The (cache_type, ttl) pairs handed to set: each category with its default,
\* and the explicit ttls (which make the category irrelevant to set).
SetArgs == {<<c, NoTTL>> : c \in CacheTypes} \cup {<<"quick", ttl>> : ttl \in TTLs}

None == "None"
Threads == {"t1", "t2"}

-----------------------------------------------------------------------------
\* Constants of the program

LocalCap == 300
DefaultTTL == 300

ttl_config ==
    [c \in {"stock_data", "technical_indicators", "analysis_result", "market_scan",
            "news", "fundamental", "capital_flow", "quick", "long"} |->
        CASE c = "stock_data" -> 300
          [] c = "technical_indicators" -> 600
          [] c = "analysis_result" -> 900
          [] c = "market_scan" -> 1800
          [] c = "news" -> 600
          [] c = "fundamental" -> 3600
          [] c = "capital_flow" -> 900
          [] c = "quick" -> 60
          [] c = "long" -> 7200]

ZeroStats == [hits |-> 0, misses |-> 0, memory_hits |-> 0, redis_hits |-> 0]

-----------------------------------------------------------------------------
\* Helpers: dicts are functions whose domain is the set of keys present

Min(a, b) == IF a <= b THEN a ELSE b

EmptyDict == [k \in {} |-> None]

Put(d, k, e) == [x \in (DOMAIN d) \cup {k} |-> IF x = k THEN e ELSE d[x]]

Del(d, ks) == [x \in (DOMAIN d) \ ks |-> d[x]]

Inc(st, f) == [st EXCEPT ![f] = @ + 1]

\* self.ttl_config.get(cache_type, 300)
CategoryTTL(cache_type) ==
    IF cache_type \in DOMAIN ttl_config THEN ttl_config[cache_type] ELSE DefaultTTL

EffectiveTTL_TruthyTest(cache_type, ttl) ==
    IF ttl = NoTTL \/ ttl = <<0>> THEN CategoryTTL(cache_type) ELSE ttl[1]

\* set: "if ttl is None: ttl = self.ttl_config.get(cache_type, 300)"
EffectiveTTL(cache_type, ttl) ==
    IF ttl = NoTTL THEN CategoryTTL(cache_type) ELSE ttl[1]

LocalExpiry_NotAnInstant(t, ttl) == Min(ttl, LocalCap)

\* 'expiry': time.time() + min(ttl, 300)
LocalExpiry(t, ttl) == t + Min(ttl, LocalCap)

\* get: "if cached_item['expiry'] > time.time()"
IsFresh(entry, t) == entry.expiry > t

IsExpired_Strict(entry, t) == entry.expiry < t

\* cleanup_expired: "if v['expiry'] <= current_time"
IsExpired(entry, t) == entry.expiry <= t

-----------------------------------------------------------------------------
\* JSON conversion of the values the model uses

DumpsCaught == "TypeError/ValueError"
DumpsEscapes == "RecursionError"

\* json.dumps(value, default=str, ensure_ascii=False)
JsonDumps(value) ==
    CASE value = "str" -> "\"str\""
      [] value = "tuple" -> "[1, 2]"
      [] value = "list" -> "[1, 2]"
      [] value = "circular" -> DumpsCaught
      [] value = "deep" -> DumpsEscapes

LoadsError == "JSONDecodeError"
Garbage == "not json"

\* json.loads(cached)
JsonLoads(payload) ==
    CASE payload = "\"str\"" -> "str"
      [] payload = "[1, 2]" -> "list"
      [] OTHER -> LoadsError

-----------------------------------------------------------------------------
\* The Redis server behind redis_client: key -> [payload, expireat].  A key
\* whose expire time has been reached is gone for every command.

Nil == "nil"
RemoteOutcomes == {"ok", "ioerror"}
RemoteGetOutcomes == {"ok", "ioerror", "corrupt"}

RedisLive(rd, t) == {k \in DOMAIN rd : rd[k].expireat > t}

\* redis_client.get(key): the reply, or "raise" for a failed call
RedisGet(rd, key, t, r) ==
    CASE r = "ioerror" -> "raise"
      [] r = "corrupt" -> Garbage
      [] OTHER -> IF key \in RedisLive(rd, t) THEN rd[key].payload ELSE Nil

\* redis_client.setex(key, ttl, payload): SETEX rejects a ttl below 1
SetexAccepted(ttl, r) == r = "ok" /\ ttl >= 1

RedisSetex(rd, key, ttl, payload, t, r) ==
    IF SetexAccepted(ttl, r)
    THEN Put(rd, key, [payload |-> payload, expireat |-> t + ttl])
    ELSE rd

\* redis_client.delete(key)
RedisDelete(rd, key, r) == IF r = "ok" THEN Del(rd, {key}) ELSE rd

-----------------------------------------------------------------------------
\* CacheManager.get

GetMiss_NotCounted(mc, st, failed) ==
    [memory_cache |-> mc, cache_stats |-> st,
     ret |-> None, raised |-> FALSE, tier |-> "miss"]

GetMiss_Propagates(mc, st, failed) ==
    [memory_cache |-> mc, cache_stats |-> IF failed THEN st ELSE Inc(st, "misses"),
     ret |-> None, raised |-> failed, tier |-> "miss"]

\* lines 76-80: a failed remote read is logged, then the miss is counted and
\* None returned, exactly as when Redis has no value
GetMiss(mc, st, failed) ==
    [memory_cache |-> mc, cache_stats |-> Inc(st, "misses"),
     ret |-> None, raised |-> FALSE, tier |-> "miss"]

\* get(key, cache_type) at time t, the remote call (if made) ending as r.
\* tier names the branch taken: lines 50-56, 61-75, or 79-80.
GetOp(mc, st, rc, rd, key, cache_type, t, r) ==
    LET present == key \in DOMAIN mc
        hit == present /\ IsFresh(mc[key], t)
        \* line 58: an expired entry is deleted before the remote tier is asked
        mc1 == IF present /\ ~hit THEN Del(mc, {key}) ELSE mc
        cached == IF rc THEN RedisGet(rd, key, t, r) ELSE Nil
        \* "if cached:" then json.loads; every exception is caught (line 76)
        value == IF cached \in {Nil, "raise"} THEN LoadsError ELSE JsonLoads(cached)
    IN  IF hit
        THEN [memory_cache |-> mc, cache_stats |-> Inc(Inc(st, "hits"), "memory_hits"),
              ret |-> mc[key].value, raised |-> FALSE, tier |-> "memory"]
        ELSE IF value # LoadsError
        THEN [memory_cache |->
                  Put(mc1, key, [value |-> value,
                                 expiry |-> LocalExpiry(t, CategoryTTL(cache_type))]),
              cache_stats |-> Inc(Inc(st, "hits"), "redis_hits"),
              ret |-> value, raised |-> FALSE, tier |-> "redis"]
        ELSE GetMiss(mc1, st, cached \in {"raise", Garbage})

-----------------------------------------------------------------------------
\* CacheManager.set

\* set(key, value, cache_type, ttl) at time t, the remote call (if made)
\* ending as r.  setex is <<ttl>> when redis_client.setex was called.
SetOp(mc, rc, rd, key, value, cache_type, ttl, t, r) ==
    LET eff == EffectiveTTL(cache_type, ttl)
        mc1 == Put(mc, key, [value |-> value, expiry |-> LocalExpiry(t, eff)])
        payload == IF rc THEN JsonDumps(value) ELSE DumpsCaught
    IN  IF ~rc \/ payload = DumpsCaught
        THEN [memory_cache |-> mc1, redis |-> rd, raised |-> FALSE, setex |-> << >>]
        ELSE IF payload = DumpsEscapes
        \* line 96 catches TypeError and ValueError only
        THEN [memory_cache |-> mc1, redis |-> rd, raised |-> TRUE, setex |-> << >>]
        ELSE [memory_cache |-> mc1, redis |-> RedisSetex(rd, key, eff, payload, t, r),
              raised |-> FALSE, setex |-> <<eff>>]

-----------------------------------------------------------------------------
\* CacheManager.delete

DeleteOp(mc, rc, rd, key, r) ==
    [memory_cache |-> Del(mc, {key}),
     redis |-> IF rc THEN RedisDelete(rd, key, r) ELSE rd]

-----------------------------------------------------------------------------
\* CacheManager.clear

NoPattern == << >>

\* "pattern in k": k has pattern as a contiguous substring
Contains(pattern, k) ==
    \E i \in 1..(Len(k) + 1) :
        /\ i + Len(pattern) - 1 <= Len(k)
        /\ SubSeq(k, i, i + Len(pattern) - 1) = pattern

\* Redis glob matching as SCAN MATCH does it: * is any run of characters,
\* ? any one character, \ quotes the next character.  (Character classes
\* are left out: no pattern of the model has a bracket.)
RECURSIVE GlobMatch(_, _)
GlobMatch(p, s) ==
    IF p = << >> THEN s = << >>
    ELSE IF Head(p) = "*"
    THEN GlobMatch(Tail(p), s) \/ (s # << >> /\ GlobMatch(p, Tail(s)))
    ELSE IF Head(p) = "?"
    THEN s # << >> /\ GlobMatch(Tail(p), Tail(s))
    ELSE IF Head(p) = "\\" /\ Len(p) >= 2
    THEN s # << >> /\ Head(s) = p[2] /\ GlobMatch(Tail(Tail(p)), Tail(s))
    ELSE s # << >> /\ Head(s) = Head(p) /\ GlobMatch(Tail(p), Tail(s))

\* the keys scan_iter(match=f"*{pattern}*") yields
ScanMatch(rd, pattern, t) ==
    {k \in RedisLive(rd, t) : GlobMatch(<<"*">> \o pattern \o <<"*">>, k)}

\* clear(pattern).  When the remote loop fails (r = "ioerror") it has deleted
\* the keys of done that it had reached; when it succeeds, all the keys scanned.
ClearOp(mc, rc, rd, pattern, t, r, done) ==
    IF pattern # NoPattern
    THEN [memory_cache |-> Del(mc, {k \in DOMAIN mc : Contains(pattern, k)}),
          redis |-> IF ~rc THEN rd
                    ELSE IF r = "ok" THEN Del(rd, ScanMatch(rd, pattern, t))
                    ELSE Del(rd, ScanMatch(rd, pattern, t) \cap done)]
    ELSE [memory_cache |-> EmptyDict,
          redis |-> IF rc /\ r = "ok" THEN EmptyDict ELSE rd]

-----------------------------------------------------------------------------
\* CacheManager.get_stats and CacheManager.cleanup_expired

\* f"{hit_rate:.2f}%": the rate in hundredths of a percent, rounded to nearest
HitRate(st) ==
    LET total == st.hits + st.misses
    IN  IF total > 0 THEN (2 * st.hits * 10000 + total) \div (2 * total) ELSE 0

GetStats(mc, st) ==
    [hits |-> st.hits, misses |-> st.misses, memory_hits |-> st.memory_hits,
     redis_hits |-> st.redis_hits, hit_rate |-> HitRate(st),
     memory_cache_size |-> Cardinality(DOMAIN mc)]

CleanupOp(mc, t) ==
    LET expired_keys == {k \in DOMAIN mc : IsExpired(mc[k], t)}
    IN  [memory_cache |-> Del(mc, expired_keys), count |-> Cardinality(expired_keys)]

-----------------------------------------------------------------------------
\* Sequential use of one manager.  last records the most recent step (a call
\* with its arguments and what it returned, or a tick of the clock); calls
\* counts the get calls made.


TwinInit == [memory_cache |-> EmptyDict, cache_stats |-> ZeroStats, out |-> << >>]

InitManager ==
    /\ now = 0
    /\ memory_cache = EmptyDict
    /\ cache_stats = ZeroStats
    /\ redis = EmptyDict
    /\ calls = 0
    /\ deadline = [k \in AllKeys |-> << >>]
    /\ last = [op |-> "init", time |-> 0]
    /\ twin = TwinInit
    /\ pc = [t \in Threads |-> "idle"]
    /\ tmp = [t \in Threads |-> 0]
    /\ arg = [t \in Threads |-> << >>]
    /\ expect = << >>
    /\ silent = FALSE
    /\ wire = << >>
    /\ probe = << >>
    /\ nulls = {}

\* the environment the manager was created in is not recorded
InitCommon ==
    /\ InitManager
    /\ env = << >>

\* create_cache_manager: redis_client is a connected client, or None
Init ==
    /\ redis_client \in BOOLEAN
    /\ InitCommon

\* time.time() advances; the Redis server drops the keys whose time is up
Advance(d) ==
    /\ now + d <= MaxTime
    /\ now' = now + d
    /\ redis' = Del(redis, (DOMAIN redis) \ RedisLive(redis, now + d))
    /\ UNCHANGED <<redis_client, memory_cache, cache_stats, calls>>

Tick(d) ==
    /\ Advance(d)
    /\ last' = [op |-> "tick", time |-> now + d]

Get(key, cache_type, r) ==
    /\ calls < MaxGets
    /\ ~redis_client => r = "ok"
    /\ LET res == GetOp(memory_cache, cache_stats, redis_client, redis,
                        key, cache_type, now, r)
       IN  /\ memory_cache' = res.memory_cache
           /\ cache_stats' = res.cache_stats
           /\ last' = [op |-> "get", key |-> key, cache_type |-> cache_type,
                       time |-> now, r |-> r, ret |-> res.ret,
                       raised |-> res.raised, tier |-> res.tier,
                       after |-> IF last.op = "set" /\ last.key = key /\ ~last.raised
                                 THEN <<last.value, last.time, last.cache_type, last.ttl>>
                                 ELSE << >>]
    /\ calls' = calls + 1
    /\ UNCHANGED <<now, redis_client, redis>>

Set(key, value, cache_type, ttl, r) ==
    /\ ~redis_client => r = "ok"
    /\ LET res == SetOp(memory_cache, redis_client, redis,
                        key, value, cache_type, ttl, now, r)
       IN  /\ memory_cache' = res.memory_cache
           /\ redis' = res.redis
           /\ last' = [op |-> "set", key |-> key, value |-> value,
                       cache_type |-> cache_type, ttl |-> ttl, time |-> now,
                       r |-> r, raised |-> res.raised, setex |-> res.setex]
    /\ UNCHANGED <<now, redis_client, cache_stats, calls>>

Delete(key, r) ==
    /\ ~redis_client => r = "ok"
    /\ LET res == DeleteOp(memory_cache, redis_client, redis, key, r)
       IN  /\ memory_cache' = res.memory_cache
           /\ redis' = res.redis
    /\ last' = [op |-> "delete", key |-> key, time |-> now, r |-> r, raised |-> FALSE]
    /\ UNCHANGED <<now, redis_client, cache_stats, calls>>

Clear(pattern, r, done) ==
    /\ ~redis_client => r = "ok"
    /\ r = "ok" => done = {}
    /\ LET res == ClearOp(memory_cache, redis_client, redis, pattern, now, r, done)
       IN  /\ memory_cache' = res.memory_cache
           /\ redis' = res.redis
    /\ last' = [op |-> "clear", pattern |-> pattern, time |-> now, r |-> r,
                raised |-> FALSE]
    /\ UNCHANGED <<now, redis_client, cache_stats, calls>>

get_stats ==
    /\ last' = [op |-> "get_stats", time |-> now,
                stats |-> GetStats(memory_cache, cache_stats)]
    /\ UNCHANGED <<now, redis_client, memory_cache, cache_stats, redis, calls>>

cleanup_expired ==
    /\ LET res == CleanupOp(memory_cache, now)
       IN  /\ memory_cache' = res.memory_cache
           /\ last' = [op |-> "cleanup_expired", time |-> now, count |-> res.count]
    /\ UNCHANGED <<now, redis_client, cache_stats, redis, calls>>

\* what a sequential step leaves alone: the bookkeeping of the other scenarios
Idle == UNCHANGED <<deadline, twin, pc, tmp, arg, expect, silent, env, wire, probe, nulls>>

Next ==
    \/ \E d \in TickSteps : Tick(d) /\ Idle
    \/ \E key \in Keys, cache_type \in CacheTypes, r \in RemoteGetOutcomes :
          Get(key, cache_type, r) /\ Idle
    \/ \E key \in Keys, value \in Values, a \in SetArgs, r \in RemoteOutcomes :
          Set(key, value, a[1], a[2], r) /\ Idle
    \/ \E key \in Keys, r \in RemoteOutcomes : Delete(key, r) /\ Idle
    \/ \E pattern \in Patterns \cup {NoPattern}, r \in RemoteOutcomes,
          done \in SUBSET Keys : Clear(pattern, r, done) /\ Idle
    \/ get_stats /\ Idle
    \/ cleanup_expired /\ Idle

Spec == Init /\ [][Next]_vars

-----------------------------------------------------------------------------
\* Two keys, swept: set, get, clear and cleanup_expired over both keys of
\* AllKeys, with the arguments cut down to SweepArgs and the remote calls
\* succeeding.

SweepArgs == {<<"technical_indicators", NoTTL>>, <<"quick", <<0>>>>}

NextSweep ==
    \/ \E d \in TickSteps : Tick(d) /\ Idle
    \/ \E key \in AllKeys, a \in SweepArgs : Set(key, "tuple", a[1], a[2], "ok") /\ Idle
    \/ \E key \in AllKeys : Get(key, "quick", "ok") /\ Idle
    \/ \E pattern \in Patterns \cup {NoPattern} : Clear(pattern, "ok", {}) /\ Idle
    \/ cleanup_expired /\ Idle

SpecSweep == Init /\ [][NextSweep]_vars

-----------------------------------------------------------------------------
\* A healthy remote tier: every remote call succeeds and every ttl is
\* positive.  deadline[k] is the instant the effective TTL of the most recent
\* set of k runs out.

HealthyArgs == {<<c, NoTTL>> : c \in CacheTypes} \cup {<<"quick", <<150>>>>}

NextHealthy ==
    \/ \E d \in TickSteps : Tick(d) /\ Idle
    \/ \E key \in Keys, a \in HealthyArgs :
          /\ Set(key, "tuple", a[1], a[2], "ok")
          /\ deadline' = [deadline EXCEPT ![key] = <<now + EffectiveTTL(a[1], a[2])>>]
          /\ UNCHANGED <<twin, pc, tmp, arg, expect, silent, env, wire, probe, nulls>>
    \/ \E key \in Keys, cache_type \in CacheTypes : Get(key, cache_type, "ok") /\ Idle
    \/ \E key \in Keys : Delete(key, "ok") /\ Idle

SpecHealthy == Init /\ [][NextHealthy]_vars

-----------------------------------------------------------------------------
\* A remote tier that is configured and fails on every call, run in step
\* with a local-only manager (twin) that receives the same calls.  twin.out
\* is what the twin's call returned, Out(last) what the manager's did.

Out(l) ==
    CASE l.op = "get" -> <<l.ret, l.raised>>
      [] l.op \in {"set", "delete", "clear"} -> <<l.raised>>
      [] l.op = "get_stats" -> <<l.stats>>
      [] l.op = "cleanup_expired" -> <<l.count>>
      [] OTHER -> << >>

TwinGet(key, cache_type) ==
    LET res == GetOp(twin.memory_cache, twin.cache_stats, FALSE, EmptyDict,
                     key, cache_type, now, "ok")
    IN  twin' = [memory_cache |-> res.memory_cache, cache_stats |-> res.cache_stats,
                 out |-> <<res.ret, res.raised>>]

TwinSet(key, value, cache_type, ttl) ==
    LET res == SetOp(twin.memory_cache, FALSE, EmptyDict,
                     key, value, cache_type, ttl, now, "ok")
    IN  twin' = [twin EXCEPT !.memory_cache = res.memory_cache,
                             !.out = <<res.raised>>]

TwinDelete(key) ==
    twin' = [twin EXCEPT
                !.memory_cache = DeleteOp(twin.memory_cache, FALSE, EmptyDict,
                                          key, "ok").memory_cache,
                !.out = <<FALSE>>]

TwinClear(pattern) ==
    twin' = [twin EXCEPT
                !.memory_cache = ClearOp(twin.memory_cache, FALSE, EmptyDict,
                                         pattern, now, "ok", {}).memory_cache,
                !.out = <<FALSE>>]

TwinCleanup ==
    LET res == CleanupOp(twin.memory_cache, now)
    IN  twin' = [twin EXCEPT !.memory_cache = res.memory_cache, !.out = <<res.count>>]

Others == UNCHANGED <<deadline, pc, tmp, arg, expect, silent, env, wire, probe, nulls>>

NextFailing ==
    \/ \E d \in TickSteps : Tick(d) /\ twin' = [twin EXCEPT !.out = << >>] /\ Others
    \/ \E key \in AllKeys :
          Get(key, "quick", "ioerror") /\ TwinGet(key, "quick") /\ Others
    \/ \E key \in AllKeys, value \in Values, a \in SweepArgs :
          Set(key, value, a[1], a[2], "ioerror") /\ TwinSet(key, value, a[1], a[2])
          /\ Others
    \/ \E key \in AllKeys : Delete(key, "ioerror") /\ TwinDelete(key) /\ Others
    \/ \E pattern \in Patterns \cup {NoPattern} :
          Clear(pattern, "ioerror", {}) /\ TwinClear(pattern) /\ Others
    \/ cleanup_expired /\ TwinCleanup /\ Others

InitFailing ==
    /\ redis_client = TRUE
    /\ InitCommon

SpecFailing == InitFailing /\ [][NextFailing]_vars

-----------------------------------------------------------------------------
\* Concurrent callers.  The code takes no lock, so a thread can be preempted
\* between any two statements of get and set, and between the load and the
\* store of "self.cache_stats[f] += 1".  pc[t] is the line thread t is about
\* to execute, arg[t] its local variables, tmp[t] the counter value it loaded.
\* The clock stands still: entries set with ttl 0 are the expired ones.

Program == <<now, redis_client, last, deadline, twin, expect, silent, env, wire, probe, nulls>>

Goto(t, line) == pc' = [pc EXCEPT ![t] = line]

\* a caller enters get(key, cache_type)
CallGet(t, key, cache_type) ==
    /\ pc[t] = "idle"
    /\ calls < MaxGets
    /\ calls' = calls + 1
    /\ arg' = [arg EXCEPT ![t] = [key |-> key, cache_type |-> cache_type]]
    /\ Goto(t, "get_50")
    /\ UNCHANGED <<Program, memory_cache, cache_stats, redis, tmp>>

\* line 50: if key in self.memory_cache
Get50(t) ==
    /\ pc[t] = "get_50"
    /\ Goto(t, IF arg[t].key \in DOMAIN memory_cache THEN "get_51" ELSE "get_61")
    /\ UNCHANGED <<Program, memory_cache, cache_stats, redis, calls, tmp, arg>>

\* line 51: cached_item = self.memory_cache[key]  (KeyError if it is gone)
Get51(t) ==
    /\ pc[t] = "get_51"
    /\ IF arg[t].key \in DOMAIN memory_cache
       THEN /\ arg' = [arg EXCEPT ![t] =
                          [key |-> arg[t].key, cache_type |-> arg[t].cache_type,
                           item |-> memory_cache[arg[t].key]]]
            /\ Goto(t, "get_52")
       ELSE /\ Goto(t, "raised")
            /\ UNCHANGED arg
    /\ UNCHANGED <<Program, memory_cache, cache_stats, redis, calls, tmp>>

\* line 52: if cached_item['expiry'] > time.time()
Get52(t) ==
    /\ pc[t] = "get_52"
    /\ Goto(t, IF IsFresh(arg[t].item, now) THEN "get_53" ELSE "get_58")
    /\ UNCHANGED <<Program, memory_cache, cache_stats, redis, calls, tmp, arg>>

\* the load half of "self.cache_stats[f] += 1" at line `at`
Load(t, at, f) ==
    /\ pc[t] = at
    /\ tmp' = [tmp EXCEPT ![t] = cache_stats[f]]
    /\ Goto(t, at \o "_store")
    /\ UNCHANGED <<Program, memory_cache, cache_stats, redis, calls, arg>>

\* the store half, then on to line `to`
Store(t, at, f, to) ==
    /\ pc[t] = at \o "_store"
    /\ cache_stats' = [cache_stats EXCEPT ![f] = tmp[t] + 1]
    /\ Goto(t, to)
    /\ UNCHANGED <<Program, memory_cache, redis, calls, tmp, arg>>

\* line 58: del self.memory_cache[key]  (KeyError if it is gone)
Get58(t) ==
    /\ pc[t] = "get_58"
    /\ IF arg[t].key \in DOMAIN memory_cache
       THEN /\ memory_cache' = Del(memory_cache, {arg[t].key})
            /\ Goto(t, "get_61")
       ELSE /\ Goto(t, "raised")
            /\ UNCHANGED memory_cache
    /\ UNCHANGED <<Program, cache_stats, redis, calls, tmp, arg>>

\* lines 61-65: the remote read and json.loads; r is how the call ends
Get61(t, r) ==
    /\ pc[t] = "get_61"
    /\ ~redis_client => r = "ok"
    /\ LET cached == IF redis_client THEN RedisGet(redis, arg[t].key, now, r) ELSE Nil
           value == IF cached \in {Nil, "raise"} THEN LoadsError ELSE JsonLoads(cached)
       IN  IF value # LoadsError
           THEN /\ arg' = [arg EXCEPT ![t] =
                              [key |-> arg[t].key, cache_type |-> arg[t].cache_type,
                               value |-> value]]
                /\ Goto(t, "get_68")
           ELSE /\ Goto(t, "get_79")
                /\ UNCHANGED arg
    /\ UNCHANGED <<Program, memory_cache, cache_stats, redis, calls, tmp>>

\* lines 67-71: backfill
Get68(t) ==
    /\ pc[t] = "get_68"
    /\ memory_cache' =
           Put(memory_cache, arg[t].key,
               [value |-> arg[t].value,
                expiry |-> LocalExpiry(now, CategoryTTL(arg[t].cache_type))])
    /\ Goto(t, "get_72")
    /\ UNCHANGED <<Program, cache_stats, redis, calls, tmp, arg>>

\* a caller enters set(key, value, cache_type, ttl); lines 83-90 write memory_cache
CallSet(t, key, value, cache_type, ttl) ==
    /\ pc[t] = "idle"
    /\ memory_cache' =
           Put(memory_cache, key,
               [value |-> value,
                expiry |-> LocalExpiry(now, EffectiveTTL(cache_type, ttl))])
    /\ arg' = [arg EXCEPT ![t] = [key |-> key, value |-> value,
                                  ttl |-> EffectiveTTL(cache_type, ttl)]]
    /\ Goto(t, "set_93")
    /\ UNCHANGED <<Program, cache_stats, redis, calls, tmp>>

\* lines 93-107: the remote write
Set93(t, r) ==
    /\ pc[t] = "set_93"
    /\ ~redis_client => r = "ok"
    /\ LET payload == IF redis_client THEN JsonDumps(arg[t].value) ELSE DumpsCaught
       IN  IF payload = DumpsCaught
           THEN Goto(t, "idle") /\ UNCHANGED redis
           ELSE IF payload = DumpsEscapes
           THEN Goto(t, "raised") /\ UNCHANGED redis
           ELSE /\ redis' = RedisSetex(redis, arg[t].key, arg[t].ttl, payload, now, r)
                /\ Goto(t, "idle")
    /\ UNCHANGED <<Program, memory_cache, cache_stats, calls, tmp, arg>>

ConcArgs == {<<"quick", NoTTL>>, <<"quick", <<0>>>>}

NextConc ==
    \/ \E t \in Threads, key \in Keys : CallGet(t, key, "quick")
    \/ \E t \in Threads : Get50(t)
    \/ \E t \in Threads : Get51(t)
    \/ \E t \in Threads : Get52(t)
    \/ \E t \in Threads : Load(t, "get_53", "hits")
    \/ \E t \in Threads : Store(t, "get_53", "hits", "get_54")
    \/ \E t \in Threads : Load(t, "get_54", "memory_hits")
    \/ \E t \in Threads : Store(t, "get_54", "memory_hits", "idle")
    \/ \E t \in Threads : Get58(t)
    \/ \E t \in Threads, r \in RemoteGetOutcomes : Get61(t, r)
    \/ \E t \in Threads : Get68(t)
    \/ \E t \in Threads : Load(t, "get_72", "hits")
    \/ \E t \in Threads : Store(t, "get_72", "hits", "get_73")
    \/ \E t \in Threads : Load(t, "get_73", "redis_hits")
    \/ \E t \in Threads : Store(t, "get_73", "redis_hits", "idle")
    \/ \E t \in Threads : Load(t, "get_79", "misses")
    \/ \E t \in Threads : Store(t, "get_79", "misses", "idle")
    \/ \E t \in Threads, key \in Keys, a \in ConcArgs :
          CallSet(t, key, "tuple", a[1], a[2])
    \/ \E t \in Threads, r \in RemoteOutcomes : Set93(t, r)

SpecConc == Init /\ [][NextConc]_vars

-----------------------------------------------------------------------------
\* Readers in flight while a writer runs, the remote tier healthy.  The reader
\* threads execute get statement by statement; set and delete run from call
\* to return without being preempted, and so does the get of a further
\* caller.  expect is << >> or <<v, until>>: the most recent write of the key
\* has returned, and a get that starts before the instant `until` is to
\* return v (the value set, or None after a delete).

\* values that json.dumps and json.loads give back unchanged
ExactValues == {"str", "list"}

Never == MaxTime + 1

LinType == "technical_indicators"

LinIdle == UNCHANGED <<deadline, twin, pc, tmp, arg, silent, env, wire, probe, nulls>>

\* the threads whose get is in flight
Readers == {"t1"}

NextLin ==
    \/ \E d \in TickSteps : Tick(d) /\ Idle
    \/ \E key \in Keys, value \in ExactValues :
          /\ Set(key, value, LinType, NoTTL, "ok")
          /\ expect' = <<value, now + EffectiveTTL(LinType, NoTTL)>>
          /\ LinIdle
    \/ \E key \in Keys :
          /\ Delete(key, "ok")
          /\ expect' = <<None, Never>>
          /\ LinIdle
    \/ \E key \in Keys : Get(key, LinType, "ok") /\ Idle
    \/ \E t \in Readers, key \in Keys : CallGet(t, key, LinType)
    \/ \E t \in Readers : Get50(t)
    \/ \E t \in Readers : Get51(t)
    \/ \E t \in Readers : Get52(t)
    \/ \E t \in Readers : Load(t, "get_53", "hits")
    \/ \E t \in Readers : Store(t, "get_53", "hits", "get_54")
    \/ \E t \in Readers : Load(t, "get_54", "memory_hits")
    \/ \E t \in Readers : Store(t, "get_54", "memory_hits", "idle")
    \/ \E t \in Readers : Get58(t)
    \/ \E t \in Readers : Get61(t, "ok")
    \/ \E t \in Readers : Get68(t)
    \/ \E t \in Readers : Load(t, "get_72", "hits")
    \/ \E t \in Readers : Store(t, "get_72", "hits", "get_73")
    \/ \E t \in Readers : Load(t, "get_73", "redis_hits")
    \/ \E t \in Readers : Store(t, "get_73", "redis_hits", "idle")
    \/ \E t \in Readers : Load(t, "get_79", "misses")
    \/ \E t \in Readers : Store(t, "get_79", "misses", "idle")

InitLin ==
    /\ redis_client = TRUE
    /\ InitCommon

SpecLin == InitLin /\ [][NextLin]_vars

-----------------------------------------------------------------------------
\* A remote tier that stops answering.  silent is TRUE once the Redis server
\* no longer replies (the connection stays open and no error comes back).  A
\* command sent to it returns when the reply arrives or when the client's
\* socket timeout cuts it off; create_cache_manager configures none.

\* redis.from_url(redis_url, decode_responses=True): socket_timeout is left at
\* its default, None
socket_timeout == << >>

\* can the remote command a thread has sent return with outcome r
RemoteReturns(r) ==
    IF silent THEN socket_timeout # << >> /\ r = "ioerror" ELSE TRUE

GoSilent ==
    /\ redis_client
    /\ ~silent
    /\ silent' = TRUE
    /\ UNCHANGED <<now, redis_client, memory_cache, cache_stats, redis, calls,
                   deadline, last, twin, pc, tmp, arg, expect, env, wire, probe,
                   nulls>>

\* a caller enters delete(key); lines 110-111 remove the key from memory_cache
CallDelete(t, key) ==
    /\ pc[t] = "idle"
    /\ memory_cache' = DeleteOp(memory_cache, FALSE, redis, key, "ok").memory_cache
    /\ arg' = [arg EXCEPT ![t] = [key |-> key]]
    /\ Goto(t, "delete_113")
    /\ UNCHANGED <<Program, cache_stats, redis, calls, tmp>>

\* lines 113-117: the remote delete
Delete113(t, r) ==
    /\ pc[t] = "delete_113"
    /\ ~redis_client => r = "ok"
    /\ redis' = DeleteOp(memory_cache, redis_client, redis, arg[t].key, r).redis
    /\ Goto(t, "idle")
    /\ UNCHANGED <<Program, memory_cache, cache_stats, calls, tmp, arg>>

\* a caller enters clear(pattern); lines 120-123 (or 132) empty memory_cache
CallClear(t, pattern) ==
    /\ pc[t] = "idle"
    /\ memory_cache' =
           ClearOp(memory_cache, FALSE, redis, pattern, now, "ok", {}).memory_cache
    /\ arg' = [arg EXCEPT ![t] = [pattern |-> pattern]]
    /\ Goto(t, "clear_125")
    /\ UNCHANGED <<Program, cache_stats, redis, calls, tmp>>

\* lines 125-130 (or 133-137): the remote scan and deletes, or flushdb
Clear125(t, r, done) ==
    /\ pc[t] = "clear_125"
    /\ ~redis_client => r = "ok"
    /\ r = "ok" => done = {}
    /\ redis' = ClearOp(memory_cache, redis_client, redis, arg[t].pattern,
                        now, r, done).redis
    /\ Goto(t, "idle")
    /\ UNCHANGED <<Program, memory_cache, cache_stats, calls, tmp, arg>>

\* the steps of thread t
HangStep(t) ==
    \/ \E key \in Keys : CallGet(t, key, "quick")
    \/ Get50(t)
    \/ Get51(t)
    \/ Get52(t)
    \/ Load(t, "get_53", "hits") \/ Store(t, "get_53", "hits", "get_54")
    \/ Load(t, "get_54", "memory_hits") \/ Store(t, "get_54", "memory_hits", "idle")
    \/ Get58(t)
    \/ \E r \in RemoteGetOutcomes : RemoteReturns(r) /\ Get61(t, r)
    \/ Get68(t)
    \/ Load(t, "get_72", "hits") \/ Store(t, "get_72", "hits", "get_73")
    \/ Load(t, "get_73", "redis_hits") \/ Store(t, "get_73", "redis_hits", "idle")
    \/ Load(t, "get_79", "misses") \/ Store(t, "get_79", "misses", "idle")
    \/ \E key \in Keys, a \in ConcArgs : CallSet(t, key, "tuple", a[1], a[2])
    \/ \E r \in RemoteOutcomes : RemoteReturns(r) /\ Set93(t, r)
    \/ \E key \in Keys : CallDelete(t, key)
    \/ \E r \in RemoteOutcomes : RemoteReturns(r) /\ Delete113(t, r)
    \/ \E pattern \in {<<"a">>, NoPattern} : CallClear(t, pattern)
    \/ \E r \in RemoteOutcomes, done \in SUBSET Keys :
          RemoteReturns(r) /\ Clear125(t, r, done)

NextHang ==
    \/ GoSilent
    \/ \E t \in Threads : HangStep(t)

SpecHang == Init /\ [][NextHang]_vars

-----------------------------------------------------------------------------
\* CacheManager._generate_cache_key.  Strings are sequences of characters.  An
\* argument is a Python value of a type, with the text str() gives for it.

KeyHeadLen == 50

PyStr(text) == [type |-> "str", text |-> text]
PyInt(text) == [type |-> "int", text |-> text]

\* str(arg), and the {v} of an f-string
Str(v) == v.text

\* the keyword names the model uses, in the order sorted() puts them
KwNames == << <<"k">>, <<"n">> >>

\* sorted(kwargs.items()): the names present, ascending
SortedNames(kwargs) == SelectSeq(KwNames, LAMBDA name : name \in DOMAIN kwargs)

RECURSIVE Join(_)
\* ":".join(key_parts)
Join(parts) ==
    IF Len(parts) = 0 THEN << >>
    ELSE IF Len(parts) = 1 THEN parts[1]
    ELSE parts[1] \o <<":">> \o Join(Tail(parts))

\* key_parts: the prefix, str(arg) of each positional argument, then
\* f"{k}={v}" of each keyword argument in sorted order
KeyParts(prefix, args, kwargs) ==
    LET names == SortedNames(kwargs)
    IN  <<prefix>>
        \o [i \in 1..Len(args) |-> Str(args[i])]
        \o [i \in 1..Len(names) |-> names[i] \o <<"=">> \o Str(kwargs[names[i]])]

\* hashlib.md5(key_str.encode()).hexdigest()[:16], taken to be free of
\* collisions: two digests are equal exactly when the strings hashed are
Md5(key_str) == [md5 |-> key_str]

\* key_str[:n]
Take(str, n) == SubSeq(str, 1, Min(Len(str), n))

\* the cache key: the digest, "_", and the first 50 characters of key_str
GenerateCacheKey(prefix, args, kwargs) ==
    LET key_str == Join(KeyParts(prefix, args, kwargs))
    IN  [digest |-> Md5(key_str), head |-> <<"_">> \o Take(key_str, KeyHeadLen)]

\* Inputs of the key derivation
Long == PyStr([i \in 1..KeyHeadLen |-> "x"])
Prefixes == { <<"p">>, <<"p", ":", "a">> }
ArgLists ==
    { << >>,
      <<PyStr(<<"a">>)>>,
      <<PyStr(<<"a", ":", "b">>)>>,
      <<PyStr(<<"a">>), PyStr(<<"b">>)>>,
      <<PyStr(<<"n", "=", "1">>)>>,
      <<PyInt(<<"1">>)>>,
      <<PyStr(<<"1">>)>>,
      <<Long, PyStr(<<"a">>)>>,
      <<Long, PyStr(<<"b">>)>> }
KwDicts ==
    { EmptyDict,
      [name \in {<<"n">>} |-> PyInt(<<"1">>)],
      [name \in {<<"n">>} |-> PyStr(<<"1">>)],
      [name \in {<<"k">>, <<"n">>} |-> PyInt(<<"1">>)] }
Triples == [prefix : Prefixes, args : ArgLists, kwargs : KwDicts]

\* derive the keys of two argument triples, once
DeriveKeys(x, y) ==
    /\ probe = << >>
    /\ probe' = [x |-> x, y |-> y,
                 kx |-> GenerateCacheKey(x.prefix, x.args, x.kwargs),
                 ky |-> GenerateCacheKey(y.prefix, y.args, y.kwargs)]
    /\ UNCHANGED <<now, redis_client, memory_cache, cache_stats, redis, calls,
                   deadline, last, twin, pc, tmp, arg, expect, silent, env, wire,
                   nulls>>

NextKey == \E x \in Triples, y \in Triples : DeriveKeys(x, y)

SpecKey == Init /\ [][NextKey]_vars

-----------------------------------------------------------------------------
\* The cached decorator.  A wrapped function is a method of a class of a
\* module, decorated with cached(cache_type, ttl, key_prefix); key_prefix << >>
\* is None.  The owner object a method is called on has a cache_manager
\* attribute or has none.  A call of the underlying function returns some
\* result; nulls is the set of <<function, args, kwargs>> whose most recent
\* invocation on an owner with a cache manager returned None.

MaxCalls == 3

MemoSteps == {300}

FuncAf ==
    [module |-> <<"m">>, class |-> "A", name |-> <<"f">>, key_prefix |-> << >>,
     cache_type |-> "technical_indicators", ttl |-> NoTTL]
FuncBf ==
    [module |-> <<"m">>, class |-> "B", name |-> <<"f">>, key_prefix |-> << >>,
     cache_type |-> "technical_indicators", ttl |-> NoTTL]
FuncAg ==
    [module |-> <<"m">>, class |-> "A", name |-> <<"g">>, key_prefix |-> <<"p">>,
     cache_type |-> "quick", ttl |-> <<150>>]

\* the (args, kwargs) a wrapped function is called with
ArgsOne == << <<PyInt(<<"1">>)>>, EmptyDict >>
CallArgs ==
    { ArgsOne,
      << << >>, [name \in {<<"n">>} |-> PyInt(<<"1">>)] >>,
      << << >>, [name \in {<<"n">>} |-> PyStr(<<"1">>)] >>,
      << << >>, [name \in {<<"n">>} |-> PyInt(<<"2">>)] >> }

\* the calls made: <<function, <<args, kwargs>>>>
MemoCalls ==
    {<<FuncAf, c>> : c \in CallArgs} \cup {<<FuncBf, ArgsOne>>, <<FuncAg, ArgsOne>>}

Results == {"tuple", None}

\* wrapper: "if not hasattr(self, 'cache_manager'): return func(...)"
UsesCache(has) == has

\* prefix = key_prefix or f"{func.__module__}.{func.__name__}"
Prefix(func) ==
    IF func.key_prefix # << >> THEN func.key_prefix
    ELSE func.module \o <<".">> \o func.name

\* "if result is not None: self.cache_manager.set(...)"
ShouldStore(result) == result # None

\* wrapper(self, *args, **kwargs) at time t; result is what func returns if
\* it is invoked, rg and rs how the remote calls of get and set end
WrapperOp(mc, st, rc, rd, func, has, args, kwargs, result, t, rg, rs) ==
    IF ~UsesCache(has)
    THEN [memory_cache |-> mc, cache_stats |-> st, redis |-> rd, key |-> << >>,
          ret |-> result, raised |-> FALSE,
          invoked |-> TRUE, got |-> FALSE, stored |-> FALSE]
    ELSE LET cache_key == GenerateCacheKey(Prefix(func), args, kwargs)
             g == GetOp(mc, st, rc, rd, cache_key, func.cache_type, t, rg)
             s == SetOp(g.memory_cache, rc, rd, cache_key, result,
                        func.cache_type, func.ttl, t, rs)
         IN  IF g.ret # None
             THEN [memory_cache |-> g.memory_cache, cache_stats |-> g.cache_stats,
                   redis |-> rd, key |-> cache_key, ret |-> g.ret, raised |-> FALSE,
                   invoked |-> FALSE, got |-> TRUE, stored |-> FALSE]
             ELSE IF ShouldStore(result)
             THEN [memory_cache |-> s.memory_cache, cache_stats |-> g.cache_stats,
                   redis |-> s.redis, key |-> cache_key, ret |-> result,
                   raised |-> s.raised,
                   invoked |-> TRUE, got |-> TRUE, stored |-> TRUE]
             ELSE [memory_cache |-> g.memory_cache, cache_stats |-> g.cache_stats,
                   redis |-> rd, key |-> cache_key, ret |-> result, raised |-> FALSE,
                   invoked |-> TRUE, got |-> TRUE, stored |-> FALSE]

wrapper(func, has, args, kwargs, result) ==
    /\ has => calls < MaxCalls
    /\ LET res == WrapperOp(memory_cache, cache_stats, redis_client, redis,
                            func, has, args, kwargs, result, now, "ok", "ok")
       IN  /\ memory_cache' = res.memory_cache
           /\ cache_stats' = res.cache_stats
           /\ redis' = res.redis
           /\ calls' = IF res.got THEN calls + 1 ELSE calls
           /\ last' = [op |-> "call", func |-> func, has |-> has, args |-> args,
                       kwargs |-> kwargs, time |-> now, key |-> res.key,
                       ret |-> res.ret, raised |-> res.raised,
                       invoked |-> res.invoked, got |-> res.got,
                       stored |-> res.stored]
    /\ UNCHANGED <<now, redis_client>>

MemoIdle == UNCHANGED <<deadline, twin, pc, tmp, arg, expect, silent, env, wire, probe>>

NextMemo ==
    \/ \E d \in MemoSteps : Advance(d) /\ UNCHANGED last /\ Idle
    \/ \E m \in MemoCalls, has \in BOOLEAN, result \in Results :
          /\ wrapper(m[1], has, m[2][1], m[2][2], result)
          /\ nulls' = IF last'.has /\ last'.invoked
                       THEN IF last'.ret = None
                            THEN nulls \cup {m}
                            ELSE nulls \ {m}
                       ELSE nulls
          /\ MemoIdle

SpecMemo == Init /\ [][NextMemo]_vars

-----------------------------------------------------------------------------
\* create_cache_manager.  env records the environment the manager was created
\* in: whether USE_REDIS_CACHE is 'true', and how the client creation and the
\* ping end ("error": import redis, redis.from_url or ping raises).  wire is
\* the list of commands the last call sent to Redis.

Envs ==
    { [use_redis |-> FALSE, connect |-> "unused"],
      [use_redis |-> TRUE, connect |-> "ok"],
      [use_redis |-> TRUE, connect |-> "error"] }

create_cache_manager_KeepsClient(e) == e.use_redis

\* the redis_client handed to CacheManager: TRUE a client, FALSE None
create_cache_manager(e) == e.use_redis /\ e.connect = "ok"

InitCreate ==
    /\ env \in Envs
    /\ redis_client = create_cache_manager(env)
    /\ InitManager

\* the Redis commands that get, set, delete and clear send
GetWire(mc, rc, key, t) ==
    IF rc /\ ~(key \in DOMAIN mc /\ IsFresh(mc[key], t)) THEN <<"get">> ELSE << >>

SetWire(rc, value) ==
    IF rc /\ JsonDumps(value) \notin {DumpsCaught, DumpsEscapes}
    THEN <<"setex">> ELSE << >>

DeleteWire(rc) == IF rc THEN <<"delete">> ELSE << >>

ClearWire(rc, pattern) ==
    IF ~rc THEN << >>
    ELSE IF pattern # NoPattern THEN <<"scan_iter">> ELSE <<"flushdb">>

CreateIdle == UNCHANGED <<deadline, twin, pc, tmp, arg, expect, silent, env, probe, nulls>>

NextCreate ==
    \/ \E d \in TickSteps : Tick(d) /\ wire' = << >> /\ CreateIdle
    \/ \E key \in Keys, r \in RemoteGetOutcomes :
          /\ Get(key, "quick", r)
          /\ wire' = GetWire(memory_cache, redis_client, key, now)
          /\ CreateIdle
    \/ \E key \in Keys, value \in Values, a \in SweepArgs, r \in RemoteOutcomes :
          /\ Set(key, value, a[1], a[2], r)
          /\ wire' = SetWire(redis_client, value)
          /\ CreateIdle
    \/ \E key \in Keys, r \in RemoteOutcomes :
          /\ Delete(key, r)
          /\ wire' = DeleteWire(redis_client)
          /\ CreateIdle
    \/ \E pattern \in {<<"a">>, NoPattern}, r \in RemoteOutcomes :
          /\ Clear(pattern, r, {})
          /\ wire' = ClearWire(redis_client, pattern)
          /\ CreateIdle

SpecCreate == InitCreate /\ [][NextCreate]_vars

-----------------------------------------------------------------------------
\* Sequential use with a remote delete that may fail while the remote reads
\* succeed.  expect is <<None, Never>> from the return of a delete of the key
\* until the next set of it, and << >> otherwise.

NextDel ==
    \/ \E d \in TickSteps : Tick(d) /\ Idle
    \/ \E key \in Keys, r \in RemoteOutcomes :
          /\ Set(key, "tuple", LinType, NoTTL, r)
          /\ expect' = << >>
          /\ LinIdle
    \/ \E key \in Keys, r \in RemoteOutcomes :
          /\ Delete(key, r)
          /\ expect' = <<None, Never>>
          /\ LinIdle
    \/ \E key \in Keys : Get(key, LinType, "ok") /\ Idle

SpecDel == Init /\ [][NextDel]_vars

-----------------------------------------------------------------------------
\* Properties of sequential use (Spec)

\* The effective TTL as the specification words it: the explicit ttl when one
\* is given, else the category's default, else 300.
StatedTTL(cache_type, ttl) ==
    IF ttl # NoTTL THEN ttl[1]
    ELSE IF cache_type \in DOMAIN ttl_config THEN ttl_config[cache_type]
    ELSE 300

\* C1: a get(key) that directly follows a completed set(key, value, ...), the
\* clock not having advanced in between and the effective TTL being positive
\* (so that it has not elapsed), returns the value that was set.
C1_SetThenGet ==
    (/\ last.op = "get"
     /\ last.after # << >>
     /\ last.time < last.after[2] + StatedTTL(last.after[3], last.after[4]))
    => last.ret = last.after[1]

C1_Witness ==
    /\ last.op = "get"
    /\ last.after # << >>
    /\ last.time > 0
    /\ last.time < last.after[2] + StatedTTL(last.after[3], last.after[4])
    /\ last.ret = "tuple"
    /\ redis_client

\* C2: once the effective TTL of the most recent set of a key has run out,
\* every get of that key returns None and leaves the key out of memory_cache.
C2_AbsentAfterTTL ==
    (/\ last.op = "get"
     /\ deadline[last.key] # << >>
     /\ last.time >= deadline[last.key][1])
    => /\ last.ret = None
       /\ last.key \notin DOMAIN memory_cache

\* C10: when the get calls made by concurrent threads have all returned,
\* hits + misses equals the number of calls and hits = memory_hits + redis_hits.
C10_ConcurrentCountersExact ==
    (\A t \in Threads : pc[t] = "idle")
    => /\ cache_stats.hits + cache_stats.misses = calls
       /\ cache_stats.hits = cache_stats.memory_hits + cache_stats.redis_hits

\* C3: a get whose remote read fails (I/O error or undecodable payload) does
\* not raise; it returns the unexpired local value if there is one, and
\* otherwise returns None, adds exactly one to misses and leaves hits,
\* memory_hits and redis_hits as they were.
C3_RemoteFailureIsMiss ==
    [][(calls' = calls + 1 /\ redis_client /\ last'.r # "ok")
       => /\ ~last'.raised
          /\ IF last'.key \in DOMAIN memory_cache
                 /\ memory_cache[last'.key].expiry > now
             THEN last'.ret = memory_cache[last'.key].value
             ELSE /\ last'.ret = None
                  /\ cache_stats' = [cache_stats EXCEPT !.misses = @ + 1]]_vars

C3_Witness ==
    /\ last.op = "get"
    /\ redis_client
    /\ last.r = "corrupt"
    /\ last.tier = "miss"
    /\ ~last.raised
    /\ cache_stats.misses = 2

\* C4: with every remote call failing, each call returns what the same call
\* returns on a local-only manager, leaves the same memory_cache and the same
\* counters, and does not raise.
C4_FailingRemoteIsLocalOnly ==
    /\ memory_cache = twin.memory_cache
    /\ cache_stats = twin.cache_stats
    /\ Out(last) = twin.out
    /\ last.op \in {"get", "set", "delete", "clear"} => ~last.raised

\* C5: set always returns normally with the LocalTier holding the new value,
\* and when serializing the value fails no remote write is attempted.
C5_SetAlwaysReturns ==
    last.op = "set"
    => /\ ~last.raised
       /\ last.key \in DOMAIN memory_cache
       /\ memory_cache[last.key].value = last.value
       /\ JsonDumps(last.value) \in {DumpsCaught, DumpsEscapes} => last.setex = << >>

\* C6: set stores the LocalTier entry with expiry write time + min(effective
\* TTL, 300) and hands the full effective TTL to setex, the effective TTL being
\* the explicit ttl, else the category default, else 300; and every LocalTier
\* entry written by a step (set, or backfill in get) expires at most 300
\* seconds after that step.
C6_EffectiveTTLAndCap ==
    [][/\ last'.op = "set"
          => LET eff == StatedTTL(last'.cache_type, last'.ttl)
             IN  /\ memory_cache'[last'.key].expiry = last'.time + Min(eff, 300)
                 /\ last'.setex # << >> => last'.setex = <<eff>>
                 /\ (last'.setex # << >> /\ last'.r = "ok" /\ eff >= 1)
                    => redis'[last'.key].expireat = last'.time + eff
       /\ \A k \in DOMAIN memory_cache' :
             (k \notin DOMAIN memory_cache \/ memory_cache'[k] # memory_cache[k])
             => memory_cache'[k].expiry <= now' + 300]_vars

C6_Witness ==
    /\ last.op = "set"
    /\ last.ttl = <<0>>
    /\ last.cache_type = "quick"
    /\ last.setex = <<0>>
    /\ last.time = 150
    /\ memory_cache[last.key].expiry = 150

\* C7: cleanup_expired removes exactly the entries whose expiry is at or before
\* the current time, leaves the other entries and the counters as they were
\* and returns the number removed; and a get never returns from memory_cache
\* an entry that cleanup_expired would remove at that instant.
C7_CleanupExact ==
    [][LET expired == {k \in DOMAIN memory_cache : memory_cache[k].expiry <= now}
       IN  /\ (last'.op = "cleanup_expired" /\ now' = now)
              => /\ DOMAIN memory_cache' = (DOMAIN memory_cache) \ expired
                 /\ \A k \in DOMAIN memory_cache' : memory_cache'[k] = memory_cache[k]
                 /\ cache_stats' = cache_stats
                 /\ last'.count = Cardinality(expired)
           /\ (calls' = calls + 1 /\ last'.tier = "memory")
              => last'.key \notin expired]_vars

C7_Witness ==
    /\ last.op = "cleanup_expired"
    /\ last.count = 1
    /\ last.time = 300
    /\ Cardinality(DOMAIN memory_cache) = 1
    /\ \E k \in DOMAIN memory_cache : memory_cache[k].expiry = 450

\* C8: clear(pattern) with a pattern removes from memory_cache and from Redis
\* exactly the keys that have pattern as a substring (the remote calls
\* succeeding).
C8_ClearSubstringBothTiers ==
    [][(last'.op = "clear" /\ last'.pattern # NoPattern /\ now' = now)
       => /\ DOMAIN memory_cache' =
                {k \in DOMAIN memory_cache : ~Contains(last'.pattern, k)}
          /\ (redis_client /\ last'.r = "ok")
             => DOMAIN redis' = {k \in DOMAIN redis : ~Contains(last'.pattern, k)}]_vars

\* C9: hits + misses is the number of get calls made, hits = memory_hits +
\* redis_hits, each get adds one to exactly one of hits and misses, no other
\* step changes a counter, and get_stats reports hits/(hits+misses) as a
\* percentage rounded to two decimals.
C9_Counters ==
    [][/\ cache_stats'.hits + cache_stats'.misses = calls'
       /\ cache_stats'.hits = cache_stats'.memory_hits + cache_stats'.redis_hits
       /\ calls' = calls + 1
          => \/ /\ cache_stats'.hits = cache_stats.hits + 1
                /\ cache_stats'.misses = cache_stats.misses
             \/ /\ cache_stats'.hits = cache_stats.hits
                /\ cache_stats'.misses = cache_stats.misses + 1
       /\ calls' = calls => cache_stats' = cache_stats
       /\ last'.op = "get_stats"
          => LET total == cache_stats.hits + cache_stats.misses
                 rate == last'.stats.hit_rate
             IN  /\ last'.stats.hits = cache_stats.hits
                 /\ last'.stats.misses = cache_stats.misses
                 /\ total = 0 => rate = 0
                 /\ total > 0 => /\ 2 * (rate * total - 10000 * cache_stats.hits) <= total
                                 /\ 2 * (10000 * cache_stats.hits - rate * total) <= total]_vars

C9_Witness ==
    /\ last.op = "get_stats"
    /\ last.stats.hits = 1
    /\ last.stats.misses = 1
    /\ last.stats.redis_hits = 1
    /\ last.stats.hit_rate = 5000

-----------------------------------------------------------------------------
\* Properties of concurrent use (SpecConc)

\* C11: in every interleaving of concurrent calls, the membership test of a
\* key and the read or removal that follows it act on the same memory_cache,
\* so no thread reaches a read ("self.memory_cache[key]") or a removal
\* ("del self.memory_cache[key]") of a key that is no longer there, and no
\* call ends in KeyError.
C11_NoAccessOfRemovedKey ==
    \A t \in Threads :
        /\ pc[t] # "raised"
        /\ pc[t] \in {"get_51", "get_58"} => arg[t].key \in DOMAIN memory_cache

\* C12: with a healthy remote tier, a get(k) that starts after set(k, v) has
\* returned and before its TTL runs out returns v, and a get(k) that starts
\* after delete(k) has returned returns None (no later write of k in either
\* case), whatever other get(k) calls were in flight during the write.
C12_GetSeesLastWrite ==
    [][(/\ calls' = calls + 1
        /\ pc' = pc
        /\ expect # << >>
        /\ now < expect[2])
       => last'.ret = expect[1]]_vars

\* C13: every get, set, delete and clear call returns even when the remote
\* tier never answers: a call that has been entered and has not returned can
\* take its next step, the remote command it waits on being cut off by a
\* timeout when no reply comes.
C13_EveryCallReturns ==
    \A t \in Threads : pc[t] \notin {"idle", "raised"} => ENABLED HangStep(t)

-----------------------------------------------------------------------------
\* Properties of the key derivation (SpecKey)

\* C16: two triples (prefix, positional arguments, keyword arguments) that
\* differ get different keys, the digest being free of collisions; so a
\* positional argument that contains ":" or reads "name=value" does not get
\* the key of the split positional arguments or of the keyword argument.
C16_KeyInjective ==
    (probe # << >> /\ probe.x # probe.y) => probe.kx # probe.ky

-----------------------------------------------------------------------------
\* Properties of the cached decorator (SpecMemo)

\* two calls in a row of one wrapped function on an owner with a cache
\* manager, the first of which invoked the function and returned a result
\* that is not None
TwoCalls ==
    /\ last.op = "call" /\ last.has /\ last.invoked
    /\ ~last.raised /\ last.ret # None
    /\ calls' = calls + 1
    /\ last'.func = last.func
    /\ last'.args = last.args

\* C14: of two calls in a row with identical arguments, the first returning
\* a result that is not None and the second made before the TTL of the
\* cached entry runs out, only the first invokes the underlying function and
\* the second returns an equal result; and a second call that differs in the
\* value of a keyword argument uses another key, so it is not served from
\* the first call's entry.
C14_MemoIdempotent ==
    [][TwoCalls
       => /\ (/\ last'.kwargs = last.kwargs
               /\ last'.time < last.time + StatedTTL(last.func.cache_type, last.func.ttl))
              => /\ ~last'.invoked
                 /\ last'.ret = last.ret
          /\ (/\ DOMAIN last'.kwargs = DOMAIN last.kwargs
               /\ \E name \in DOMAIN last.kwargs : last'.kwargs[name] # last.kwargs[name])
              => last'.key # last.key]_vars

\* C15: a call whose function returned None does not call set and leaves no
\* entry under its key; while the most recent invocation of a function with
\* given arguments returned None, every call of it with those arguments
\* invokes it again; and a call on an owner without a cache manager invokes
\* the function, calls neither get nor set and changes no counter.
C15_NullNeverCached ==
    [][/\ (calls' = calls + 1 /\ last'.invoked /\ last'.ret = None)
          => /\ ~last'.stored
             /\ last'.key \notin DOMAIN memory_cache'
             /\ redis' = redis
       /\ (calls' = calls + 1
           /\ <<last'.func, <<last'.args, last'.kwargs>>>> \in nulls)
          => last'.invoked
       /\ (last' # last /\ last'.op = "call" /\ ~last'.has)
          => /\ last'.invoked /\ ~last'.got /\ ~last'.stored
             /\ UNCHANGED <<memory_cache, cache_stats, redis, calls>>]_vars

\* C19: two calls in a row, with equal arguments, of two different wrapped
\* functions that both have an auto-generated prefix, on owners with the same
\* cache manager, use different keys, and the second does not return a value
\* that the first one cached.
C19_FunctionsDoNotShareKeys ==
    [][(/\ last.op = "call" /\ last.has
        /\ calls' = calls + 1
        /\ last'.func # last.func
        /\ last.func.key_prefix = << >> /\ last'.func.key_prefix = << >>
        /\ last'.args = last.args /\ last'.kwargs = last.kwargs)
       => /\ last'.key # last.key
          /\ last.stored => last'.invoked]_vars

-----------------------------------------------------------------------------
\* Further properties of sequential use

\* C17: every ttl that set hands to redis_client.setex is at least 1,
\* whatever ttl the caller passed (0 included).
C17_SetexTTLAtLeastOne ==
    (last.op = "set" /\ last.setex # << >>) => last.setex[1] >= 1

\* C18: when USE_REDIS_CACHE is on and the client creation or the ping
\* fails, the manager exists with redis_client None, and from then on no
\* call sends a command to Redis, nothing is written to Redis, no get is a
\* Redis hit and no call raises.
C18_ConnectFailureMeansLocalOnly ==
    (env.use_redis /\ env.connect = "error")
    => /\ ~redis_client
       /\ wire = << >>
       /\ redis = EmptyDict
       /\ cache_stats.redis_hits = 0
       /\ last.op \in {"get", "set", "delete", "clear"} => ~last.raised

C18_Witness ==
    /\ env.use_redis /\ env.connect = "error"
    /\ last.op = "get"
    /\ last.tier = "miss"
    /\ now = 300
    /\ cache_stats.memory_hits = 1

\* C20: in sequential use, from the return of delete(k) until the next
\* set(k, ...), every get(k) returns None and leaves k out of memory_cache,
\* also when the remote delete of that call failed and the remote reads of
\* the later gets succeed.
C20_DeletedStaysAbsent ==
    (last.op = "get" /\ expect # << >>)
    => /\ last.ret = expect[1]
       /\ last.key \notin DOMAIN memory_cache

====
